---- MODULE Spec2Model ----
(***************************************************************************)
(* A model of new_page (src/main.rs): the conversion of the tag mapping of *)
(* a BibTeX entry into a Paper record, and the rendering of that record as *)
(* a front-matter block followed by the abstract.                          *)
(*                                                                         *)
(* Text is a sequence of atoms.  A character of a tag value is a one       *)
(* character string; the literal text of a format string is cut into its   *)
(* newline-free pieces and the newline atom "\n".  Flattening the atoms    *)
(* gives the bytes the program writes.                                     *)
(***************************************************************************)
EXTENDS Integers, Sequences, FiniteSets, TLC

VARIABLES pc, s, pages, authors, tags, paper, block, entries, idx, out

vars == <<pc, s, pages, authors, tags, paper, block, entries, idx, out>>

(***************************************************************************)
(* Bounds of the model.                                                    *)
(***************************************************************************)
\* longest `pages` string handed to Pages::from_string
MaxLen == 5
\* largest number of tokens an `author` string is built from
MaxTokens == 5
\* largest number of entries of a bibliography
MaxEntries == 4

(***************************************************************************)
(* Option<T>: None is the empty sequence, Some(x) the one-element one.     *)
(***************************************************************************)
None == <<>>
Some(x) == <<x>>
IsSome(o) == Len(o) = 1
Unwrap(o) == o[1]

(***************************************************************************)
(* Characters and integers.                                                *)
(***************************************************************************)
Digits == {"0", "1", "2", "3", "4", "5", "6", "7", "8", "9"}

\* char::is_ascii_digit
is_ascii_digit(c) == c \in Digits

\* the White_Space characters str::trim removes, among those of the model
IsWhitespace(c) == c \in {" ", "\t", "\n", "\r"}

DigitVal(c) ==
    CASE c = "0" -> 0 [] c = "1" -> 1 [] c = "2" -> 2 [] c = "3" -> 3
      [] c = "4" -> 4 [] c = "5" -> 5 [] c = "6" -> 6 [] c = "7" -> 7
      [] c = "8" -> 8 [] c = "9" -> 9

DigitChar(d) ==
    CASE d = 0 -> "0" [] d = 1 -> "1" [] d = 2 -> "2" [] d = 3 -> "3"
      [] d = 4 -> "4" [] d = 5 -> "5" [] d = 6 -> "6" [] d = 7 -> "7"
      [] d = 8 -> "8" [] d = 9 -> "9"

RECURSIVE DigitsValue(_, _)
\* the accumulation loop of i64::from_str: acc * 10 + digit, left to right
DigitsValue(ds, acc) ==
    IF ds = <<>> THEN acc
    ELSE DigitsValue(Tail(ds), acc * 10 + DigitVal(Head(ds)))

\* str::parse::<i64>().ok(): an optional sign, then one digit or more and
\* nothing else.  (A value outside i64 is an error too; the strings of the
\* model are far shorter than the 19 digits that takes.)
parse_i64(str) ==
    IF str = <<>> THEN None
    ELSE LET signed == Head(str) \in {"+", "-"}
             body   == IF signed THEN Tail(str) ELSE str
         IN  IF body = <<>> \/ \E i \in DOMAIN body : ~is_ascii_digit(body[i])
             THEN None
             ELSE IF Head(str) = "-" THEN Some(0 - DigitsValue(body, 0))
                  ELSE Some(DigitsValue(body, 0))

RECURSIVE NatToString(_)
NatToString(n) ==
    IF n < 10 THEN <<DigitChar(n)>>
    ELSE NatToString(n \div 10) \o <<DigitChar(n % 10)>>

\* i64::to_string
to_string(n) == IF n < 0 THEN <<"-">> \o NatToString(0 - n) ELSE NatToString(n)

(***************************************************************************)
(* str::split, str::replace, str::trim.                                    *)
(***************************************************************************)
RECURSIVE SplitNonDigit(_)
\* s.split(|c: char| !c.is_ascii_digit()): cut at every non-digit
SplitNonDigit(str) ==
    IF \A i \in DOMAIN str : is_ascii_digit(str[i]) THEN <<str>>
    ELSE LET i == CHOOSE k \in DOMAIN str :
                      /\ ~is_ascii_digit(str[k])
                      /\ \A j \in 1..(k - 1) : is_ascii_digit(str[j])
         IN  <<SubSeq(str, 1, i - 1)>> \o SplitNonDigit(SubSeq(str, i + 1, Len(str)))

RECURSIVE SplitChar(_, _)
\* s.split(c): cut at every occurrence of the character c
SplitChar(str, c) ==
    IF \A i \in DOMAIN str : str[i] # c THEN <<str>>
    ELSE LET i == CHOOSE k \in DOMAIN str :
                      /\ str[k] = c
                      /\ \A j \in 1..(k - 1) : str[j] # c
         IN  <<SubSeq(str, 1, i - 1)>> \o SplitChar(SubSeq(str, i + 1, Len(str)), c)

MatchAt(str, pat, i) ==
    /\ i + Len(pat) - 1 <= Len(str)
    /\ SubSeq(str, i, i + Len(pat) - 1) = pat

RECURSIVE SplitStr(_, _)
\* s.split(pat): cut at the leftmost occurrence of pat, then go on after it
SplitStr(str, pat) ==
    IF \A i \in DOMAIN str : ~MatchAt(str, pat, i) THEN <<str>>
    ELSE LET i == CHOOSE k \in DOMAIN str :
                      /\ MatchAt(str, pat, k)
                      /\ \A j \in 1..(k - 1) : ~MatchAt(str, pat, j)
         IN  <<SubSeq(str, 1, i - 1)>>
                 \o SplitStr(SubSeq(str, i + Len(pat), Len(str)), pat)

\* s.replace("\n", " ")
ReplaceNewline(str) == [i \in DOMAIN str |-> IF str[i] = "\n" THEN " " ELSE str[i]]

\* str::trim
Trim(str) ==
    IF \A i \in DOMAIN str : IsWhitespace(str[i]) THEN <<>>
    ELSE LET lo == CHOOSE k \in DOMAIN str :
                       /\ ~IsWhitespace(str[k])
                       /\ \A j \in 1..(k - 1) : IsWhitespace(str[j])
             hi == CHOOSE k \in DOMAIN str :
                       /\ ~IsWhitespace(str[k])
                       /\ \A j \in (k + 1)..Len(str) : IsWhitespace(str[j])
         IN  SubSeq(str, lo, hi)

Reverse(seq) == [i \in DOMAIN seq |-> seq[Len(seq) + 1 - i]]

(***************************************************************************)
(* Pages                                                                   *)
(***************************************************************************)
RECURSIVE FilterMapParse(_)
\* .filter_map(|i| i.parse::<i64>().ok()): the values of the tokens that parse
FilterMapParse(toks) ==
    IF toks = <<>> THEN <<>>
    ELSE LET p == parse_i64(Head(toks))
         IN  (IF IsSome(p) THEN <<Unwrap(p)>> ELSE <<>>) \o FilterMapParse(Tail(toks))

\* the variant that takes `to` from the last numeric token
Pages_from_string_Last(str) ==
    LET nums == FilterMapParse(SplitNonDigit(str))
    IN  [from |-> IF Len(nums) >= 1 THEN Some(nums[1]) ELSE None,
         to   |-> IF Len(nums) >= 2 THEN Some(nums[Len(nums)]) ELSE None]

\* Pages::from_string
Pages_from_string(str) ==
    LET nums == FilterMapParse(SplitNonDigit(str))
    IN  [from |-> IF Len(nums) >= 1 THEN Some(nums[1]) ELSE None,
         to   |-> IF Len(nums) >= 2 THEN Some(nums[2]) ELSE None]

\* Pages::default
Pages_default == [from |-> None, to |-> None]

(***************************************************************************)
(* Authors                                                                 *)
(***************************************************************************)
RECURSIVE FoldPush(_, _)
\* .fold("".to_string(), |mut acc, s| { acc.push(' '); acc.push_str(s); acc })
FoldPush(frags, acc) ==
    IF frags = <<>> THEN acc
    ELSE FoldPush(Tail(frags), acc \o <<" ">> \o Head(frags))

\* the variant that leaves out .trim()
AuthorName_NoTrim(seg) == FoldPush(Reverse(SplitChar(seg, ",")), <<>>)

\* the variant that leaves out .rev()
AuthorName_NoRev(seg) == Trim(FoldPush(SplitChar(seg, ","), <<>>))

\* the closure mapped over the segments: split(',').rev().fold(..).trim()
AuthorName(seg) == Trim(FoldPush(Reverse(SplitChar(seg, ",")), <<>>))

AndPat == <<" ", "a", "n", "d", " ">>

\* Authors::from_string
Authors_from_string(str) ==
    LET segs == SplitStr(ReplaceNewline(str), AndPat)
    IN  [i \in DOMAIN segs |-> AuthorName(segs[i])]

(***************************************************************************)
(* The other field normalizers.                                            *)
(***************************************************************************)
\* the variant that turns an unparsable series into 0
Series_from_Zero(o) ==
    IF IsSome(o) THEN (IF IsSome(parse_i64(Unwrap(o))) THEN parse_i64(Unwrap(o)) ELSE Some(0))
    ELSE None

\* impl From<Option<&String>> for Series: s.map_or(None, |i| i.parse().ok())
Series_from(o) == IF IsSome(o) THEN parse_i64(Unwrap(o)) ELSE None

\* impl From<Option<&String>> for Volume: s.map(|s| s.parse().ok()).flatten()
Volume_from(o) == IF IsSome(o) THEN parse_i64(Unwrap(o)) ELSE None

\* impl From<Option<&String>> for Doi: the tag, or the empty string
Doi_from(o) == IF IsSome(o) THEN Unwrap(o) ELSE <<>>

\* impl From<&str> for Year: the result of s.parse::<i64>(), which the
\* caller unwraps
Year_from(str) == parse_i64(str)

\* impl From<&String> for Title
Title_from(str) == str

\* impl From<&String> for Abstract
Abstract_from(str) == str

\* impl From<&String> for Name
Name_from(str) == str

\* impl From<&String> for Url
Url_from(str) == str

\* impl From<Option<&String>> for Publisher
Publisher_from(o) == o

\* enum Place
Journal(n) == [kind |-> "Journal", name |-> n]
Conference(n) == [kind |-> "Conference", name |-> n]

\* Option::or
Or(a, b) == IF IsSome(a) THEN a ELSE b

(***************************************************************************)
(* Paper::from.  A tag mapping is a record giving Option<String> for every *)
(* tag the program reads: tags.get(k) is t[k].                             *)
(***************************************************************************)
\* the variant that invents a conference when no venue tag is there
Venue_Default(t) ==
    LET conf == IF IsSome(t.booktitle)
                THEN Some(Conference(Name_from(Unwrap(t.booktitle)))) ELSE None
        jour == Or(t.journal, t.journaltitle)
    IN  IF IsSome(jour) THEN Some(Journal(Name_from(Unwrap(jour))))
        ELSE IF IsSome(conf) THEN conf ELSE Some(Conference(<<>>))

\* the variant that looks at booktitle first
Venue_BooktitleFirst(t) ==
    LET conf == IF IsSome(t.booktitle)
                THEN Some(Conference(Name_from(Unwrap(t.booktitle)))) ELSE None
        jour == Or(t.journal, t.journaltitle)
    IN  IF IsSome(conf) THEN conf
        ELSE IF IsSome(jour) THEN Some(Journal(Name_from(Unwrap(jour)))) ELSE None

\* `conf` and `place` of Paper::from, before conf.unwrap(): None when no
\* venue tag is there
Venue(t) ==
    LET conf == IF IsSome(t.booktitle)
                THEN Some(Conference(Name_from(Unwrap(t.booktitle)))) ELSE None
        jour == Or(t.journal, t.journaltitle)
    IN  IF IsSome(jour) THEN Some(Journal(Name_from(Unwrap(jour)))) ELSE conf

\* the variant that prefers the year tag
YearText_YearFirst(t) ==
    IF IsSome(t.year) THEN t.year
    ELSE IF IsSome(t.date) THEN Some(SplitChar(Unwrap(t.date), "-")[1]) ELSE None

\* `year` of Paper::from, before tags.get("year").unwrap(): the text the
\* year is parsed from, None when neither tag is there
YearText(t) ==
    IF IsSome(t.date) THEN Some(SplitChar(Unwrap(t.date), "-")[1]) ELSE t.year

\* a panic of Paper::from, with the unwrap that raised it
Panic(what) == [ok |-> FALSE, panic |-> what]

\* impl From<&Bibliography> for Paper; the unwraps in the order they run
Paper_from(t) ==
    IF ~IsSome(Venue(t)) THEN Panic("conf.unwrap")
    ELSE IF ~IsSome(YearText(t)) THEN Panic("year.unwrap")
    ELSE IF ~IsSome(t.author) THEN Panic("author.unwrap")
    ELSE IF ~IsSome(Year_from(Unwrap(YearText(t)))) THEN Panic("parse.unwrap")
    ELSE IF ~IsSome(t.title) THEN Panic("title.unwrap")
    ELSE IF ~IsSome(t.url) THEN Panic("url.unwrap")
    ELSE [ok     |-> TRUE,
          auth   |-> Authors_from_string(Unwrap(t.author)),
          pages  |-> IF IsSome(t.pages) THEN Pages_from_string(Unwrap(t.pages))
                     ELSE Pages_default,
          vol    |-> Volume_from(t.volume),
          year   |-> Unwrap(Year_from(Unwrap(YearText(t)))),
          doi    |-> Doi_from(t.doi),
          title  |-> Title_from(Unwrap(t.title)),
          place  |-> Unwrap(Venue(t)),
          url    |-> Url_from(Unwrap(t.url)),
          abs    |-> Abstract_from(IF IsSome(t.abstract) THEN Unwrap(t.abstract) ELSE <<>>),
          series |-> Series_from(Or(t.series, t.number)),
          publi  |-> Publisher_from(t.publisher)]

(***************************************************************************)
(* Display.                                                                *)
(***************************************************************************)
OptToString(o) == IF IsSome(o) THEN to_string(Unwrap(o)) ELSE <<>>

\* impl Display for Pages
Pages_fmt(p) ==
    <<"page:", "\n", "  from: ">> \o OptToString(p.from)
        \o <<"\n", "  to: ">> \o OptToString(p.to) \o <<"\n">>

\* impl Display for Series
Series_fmt(se) == <<"series: ">> \o OptToString(se) \o <<"\n">>

RECURSIVE AuthorItems(_)
\* the loop of Display for Authors
AuthorItems(as) ==
    IF as = <<>> THEN <<>>
    ELSE <<"  - \"">> \o Head(as) \o <<"\"", "\n">> \o AuthorItems(Tail(as))

\* impl Display for Authors
Authors_fmt(as) == <<"authors:", "\n">> \o AuthorItems(as)

\* the variant that writes nothing for an absent volume
Volume_fmt_Omit(v) ==
    IF IsSome(v) THEN <<"volume: ">> \o to_string(Unwrap(v)) \o <<"\n">> ELSE <<>>

\* impl Display for Volume
Volume_fmt(v) ==
    <<"volume: ">> \o (IF IsSome(v) THEN to_string(Unwrap(v)) \o <<"\n">> ELSE <<"\n">>)

\* impl Display for Doi
Doi_fmt(d) == <<"doi: \"">> \o d \o <<"\"", "\n">>

\* impl Display for Year
Year_fmt(y) == <<"year: ">> \o to_string(y) \o <<"\n">>

\* impl Display for Title
Title_fmt(ti) == <<"title: \"">> \o ti \o <<"\"", "\n">>

\* impl Display for Abstract
Abstract_fmt(a) == a \o <<"\n">>

\* impl Display for Name
Name_fmt(n) == n

\* impl Display for Place
Place_fmt(pl) ==
    IF pl.kind = "Journal"
    THEN <<"journal:", "\n", "  name: \"">> \o Name_fmt(pl.name)
             \o <<"\"", "\n", "  shortname: \"\"", "\n">>
    ELSE <<"conference:", "\n", "  name: \"">> \o Name_fmt(pl.name)
             \o <<"\"", "\n", "  shortname: \"\"", "\n">>

\* impl Display for Url
Url_fmt(u) == <<"www: \"">> \o u \o <<"\"", "\n">>

\* impl Display for Publisher
Publisher_fmt(pu) ==
    <<"publisher: ">>
        \o (IF IsSome(pu) THEN <<"\"">> \o Unwrap(pu) \o <<"\"", "\n">> ELSE <<"\n">>)

\* impl Display for Paper
Paper_fmt(p) ==
    <<"---", "\n">>
        \o Authors_fmt(p.auth)
        \o Pages_fmt(p.pages)
        \o Volume_fmt(p.vol)
        \o Series_fmt(p.series)
        \o Place_fmt(p.place)
        \o Title_fmt(p.title)
        \o Publisher_fmt(p.publi)
        \o Year_fmt(p.year)
        \o Doi_fmt(p.doi)
        \o Url_fmt(p.url)
        \o <<"---", "\n">>
        \o Abstract_fmt(p.abs) \o <<"\n">>

\* the variant that writes the record with print!
println_NoNewline(p) == Paper_fmt(p)

\* println!("{}", p): the record, then a newline
println(p) == Paper_fmt(p) \o <<"\n">>

(***************************************************************************)
(* Inputs.                                                                 *)
(***************************************************************************)
SeqsUpTo(A, n) == UNION {[1..k -> A] : k \in 0..n}

RECURSIVE Flatten(_)
Flatten(ss) == IF ss = <<>> THEN <<>> ELSE Head(ss) \o Flatten(Tail(ss))

\* the characters of a `pages` value: digits, separators, a letter
PageChars == {"0", "1", "2", "-", "p"}

PageInputs == SeqsUpTo(PageChars, MaxLen)

\* an `author` value is built from name parts, commas, blanks, line breaks
\* and the delimiter " and "
AuthorTokens == {<<"D">>, <<"J">>, <<",">>, <<" ">>, <<"\n">>, AndPat}

AuthorInputs == {Flatten(ts) : ts \in SeqsUpTo(AuthorTokens, MaxTokens)}

\* the tag mappings a record is built from: every tag absent or present,
\* the numeric ones also with text that is no number, the title also with
\* a line break in it
TagMappings ==
    [author       : {None, Some(<<"D", ",", " ", "J">>)},
     title        : {None, Some(<<"T">>), Some(<<"T", "\n", "t">>)},
     url          : {None, Some(<<"u">>)},
     journal      : {None, Some(<<"j">>)},
     journaltitle : {None, Some(<<"k">>)},
     booktitle    : {None, Some(<<"b">>)},
     date         : {None, Some(<<"2", "1", "-", "0", "5">>), Some(<<"x", "-", "1">>)},
     year         : {None, Some(<<"1", "9">>), Some(<<"y">>)},
     pages        : {None, Some(<<"1", "-", "2">>), Some(<<"p">>)},
     volume       : {None, Some(<<"7">>), Some(<<"v">>)},
     series       : {None, Some(<<"3">>), Some(<<"s">>)},
     number       : {None, Some(<<"4">>)},
     doi          : {None, Some(<<"d">>)},
     publisher    : {None, Some(<<"P">>)},
     abstract     : {None, Some(<<"a", "\n", "c">>)}]

\* an entry with nothing but the mandatory tags
BaseEntry ==
    [author |-> Some(<<"D", ",", " ", "J">>), title |-> Some(<<"A">>),
     url |-> Some(<<"u">>), journal |-> Some(<<"j">>), journaltitle |-> None,
     booktitle |-> None, date |-> None, year |-> Some(<<"2", "0">>),
     pages |-> None, volume |-> None, series |-> None, number |-> None,
     doi |-> None, publisher |-> None, abstract |-> None]

\* the entries a bibliography is made of: three that convert (their titles
\* differ) and three that do not
SampleEntries ==
    {BaseEntry,
     [BaseEntry EXCEPT !.title = Some(<<"B">>), !.journal = None,
                       !.booktitle = Some(<<"b">>), !.abstract = Some(<<"a">>),
                       !.pages = Some(<<"1", "-", "2">>)],
     [BaseEntry EXCEPT !.title = Some(<<"C">>), !.date = Some(<<"2", "1", "-", "0", "5">>),
                       !.volume = Some(<<"7">>), !.publisher = Some(<<"P">>),
                       !.abstract = Some(<<"a", "\n", "c">>)],
     [BaseEntry EXCEPT !.title = Some(<<"E">>), !.url = None],
     [BaseEntry EXCEPT !.title = Some(<<"F">>), !.year = Some(<<"y">>)],
     [BaseEntry EXCEPT !.title = Some(<<"G">>), !.journal = None]}

Bibliographies == SeqsUpTo(SampleEntries, MaxEntries)

\* the value of a variable a specification does not use
Idle == <<>>

(***************************************************************************)
(* Pages::from_string on every input.                                      *)
(***************************************************************************)
InitPages ==
    /\ pc = "input"
    /\ s \in PageInputs
    /\ pages = Pages_default
    /\ authors = Idle /\ tags = Idle /\ paper = Idle /\ block = Idle
    /\ entries = Idle /\ idx = 0 /\ out = Idle

ParsePages ==
    /\ pc = "input"
    /\ pages' = Pages_from_string(s)
    /\ pc' = "parsed"
    /\ UNCHANGED <<s, authors, tags, paper, block, entries, idx, out>>

SpecPages == InitPages /\ [][ParsePages]_vars

(***************************************************************************)
(* Authors::from_string on every input.                                    *)
(***************************************************************************)
InitAuthors ==
    /\ pc = "input"
    /\ s \in AuthorInputs
    /\ authors = <<>>
    /\ pages = Idle /\ tags = Idle /\ paper = Idle /\ block = Idle
    /\ entries = Idle /\ idx = 0 /\ out = Idle

ParseAuthors ==
    /\ pc = "input"
    /\ authors' = Authors_from_string(s)
    /\ pc' = "parsed"
    /\ UNCHANGED <<s, pages, tags, paper, block, entries, idx, out>>

SpecAuthors == InitAuthors /\ [][ParseAuthors]_vars

(***************************************************************************)
(* One entry: Paper::from, then the rendering of the record.               *)
(***************************************************************************)
NoPaper == Panic("unbuilt")

InitPaper ==
    /\ pc = "tags"
    /\ tags \in TagMappings
    /\ paper = NoPaper
    /\ block = <<>>
    /\ s = Idle /\ pages = Idle /\ authors = Idle
    /\ entries = Idle /\ idx = 0 /\ out = Idle

\* Paper::from(b): a record, or a panic
Construct ==
    /\ pc = "tags"
    /\ paper' = Paper_from(tags)
    /\ pc' = IF paper'.ok THEN "built" ELSE "panicked"
    /\ UNCHANGED <<s, pages, authors, tags, block, entries, idx, out>>

\* format!("{}", p)
Render ==
    /\ pc = "built"
    /\ block' = Paper_fmt(paper)
    /\ pc' = "rendered"
    /\ UNCHANGED <<s, pages, authors, tags, paper, entries, idx, out>>

NextPaper == Construct \/ Render

SpecPaper == InitPaper /\ [][NextPaper]_vars

(***************************************************************************)
(* main, from bibtex.bibliographies() on: the loop over the entries.       *)
(***************************************************************************)
Init ==
    /\ pc = "loop"
    /\ entries \in Bibliographies
    /\ idx = 0
    /\ out = <<>>
    /\ s = Idle /\ pages = Idle /\ authors = Idle
    /\ tags = Idle /\ paper = Idle /\ block = Idle

\* the variant that skips an entry that does not convert
ProcessEntry_SkipFailed ==
    /\ pc = "loop"
    /\ idx < Len(entries)
    /\ LET p == Paper_from(entries[idx + 1])
       IN  /\ out' = IF p.ok THEN out \o println(p) ELSE out
           /\ idx' = idx + 1
           /\ pc' = pc
    /\ UNCHANGED <<s, pages, authors, tags, paper, block, entries>>

\* one turn of entries.iter().map(Paper::from).for_each(|p| println!("{}", p)):
\* the next entry is converted and written, or the conversion panics
ProcessEntry ==
    /\ pc = "loop"
    /\ idx < Len(entries)
    /\ LET p == Paper_from(entries[idx + 1])
       IN  IF p.ok
           THEN /\ out' = out \o println(p)
                /\ idx' = idx + 1
                /\ pc' = pc
           ELSE /\ pc' = "panicked"
                /\ UNCHANGED <<out, idx>>
    /\ UNCHANGED <<s, pages, authors, tags, paper, block, entries>>

\* return Ok(())
Finish ==
    /\ pc = "loop"
    /\ idx = Len(entries)
    /\ pc' = "done"
    /\ UNCHANGED <<s, pages, authors, tags, paper, block, entries, idx, out>>

Next == ProcessEntry \/ Finish

Spec == Init /\ [][Next]_vars

(***************************************************************************)
(* What the properties below are stated with: the digit runs of a string   *)
(* by position, the value of a run as a sum of powers of ten, joining.     *)
(***************************************************************************)
RECURSIVE DecimalSum(_)
\* the number a digit string denotes: its last digit, plus ten times the rest
DecimalSum(ds) ==
    IF ds = <<>> THEN 0
    ELSE DigitVal(ds[Len(ds)]) + 10 * DecimalSum(SubSeq(ds, 1, Len(ds) - 1))

\* the places where a maximal run of digits starts
RunStarts(str) ==
    {i \in DOMAIN str : str[i] \in Digits /\ (i = 1 \/ str[i - 1] \notin Digits)}

\* the maximal run of digits that starts at i
RunAt(str, i) ==
    LET j == CHOOSE k \in i..Len(str) :
                 /\ \A m \in i..k : str[m] \in Digits
                 /\ (k = Len(str) \/ str[k + 1] \notin Digits)
    IN  SubSeq(str, i, j)

Min(S) == CHOOSE x \in S : \A y \in S : x <= y

\* text that denotes an integer: an optional sign, then digits only
IsInteger(str) ==
    /\ str # <<>>
    /\ LET body == IF str[1] \in {"+", "-"} THEN SubSeq(str, 2, Len(str)) ELSE str
       IN  body # <<>> /\ \A i \in DOMAIN body : body[i] \in Digits

IntegerOf(str) ==
    IF str[1] = "-" THEN 0 - DecimalSum(SubSeq(str, 2, Len(str)))
    ELSE IF str[1] = "+" THEN DecimalSum(SubSeq(str, 2, Len(str)))
    ELSE DecimalSum(str)

RECURSIVE JoinWithSpace(_)
JoinWithSpace(frags) ==
    IF frags = <<>> THEN <<>>
    ELSE IF Len(frags) = 1 THEN frags[1]
    ELSE Head(frags) \o <<" ">> \o JoinWithSpace(Tail(frags))

\* the segments of the author string s between the delimiters " and ",
\* newlines read as spaces
Segments == SplitStr(ReplaceNewline(s), AndPat)

RECURSIVE CutLike(_, _)
\* str cut into pieces as long as those of segs, a delimiter's length apart
CutLike(str, segs) ==
    IF segs = <<>> THEN <<>>
    ELSE <<SubSeq(str, 1, Len(Head(segs)))>>
             \o CutLike(SubSeq(str, Len(Head(segs)) + Len(AndPat) + 1, Len(str)), Tail(segs))

\* the same segments as they stand in s, newlines kept
RawSegments == CutLike(s, Segments)

HasComma(seg) == \E i \in DOMAIN seg : seg[i] = ","

(***************************************************************************)
(* C5.  Pages::from_string: `from` is the first maximal digit run of the   *)
(* string and `to` the second, left to right; later runs are ignored; with *)
(* one run `to` is absent, with none both are.                             *)
(***************************************************************************)
C5_FirstTwoDigitRuns ==
    pc = "parsed" =>
        LET starts == RunStarts(s)
            first  == Min(starts)
            second == Min(starts \ {first})
        IN  /\ pages.from = IF starts = {} THEN None
                            ELSE Some(DecimalSum(RunAt(s, first)))
            /\ pages.to = IF Cardinality(starts) < 2 THEN None
                          ELSE Some(DecimalSum(RunAt(s, second)))

\* three runs: the third is ignored
C5_Witness ==
    /\ pc = "parsed"
    /\ Cardinality(RunStarts(s)) = 3
    /\ pages = [from |-> Some(1), to |-> Some(2)]

(***************************************************************************)
(* C6.  Authors::from_string: one name per " and "-delimited segment of    *)
(* the string with its newlines read as spaces, in order; each name is the *)
(* comma-separated fragments of its segment, reversed, joined with single  *)
(* spaces and trimmed.                                                     *)
(***************************************************************************)
C6_ReversedFragments ==
    pc = "parsed" =>
        /\ Len(authors) = Len(Segments)
        /\ \A i \in DOMAIN authors :
               authors[i] = Trim(JoinWithSpace(Reverse(SplitChar(Segments[i], ","))))

\* "D,J and J": two names, the first one reordered
C6_Witness ==
    /\ pc = "parsed"
    /\ Len(authors) = 2
    /\ HasComma(Segments[1])
    /\ authors[1] = <<"J", " ", "D">>

(***************************************************************************)
(* C7, as stated.  A segment with no comma comes out character for         *)
(* character as it stands in the input.                                    *)
(***************************************************************************)
C7_Unchanged ==
    pc = "parsed" =>
        \A i \in DOMAIN RawSegments :
            ~HasComma(RawSegments[i]) => authors[i] = RawSegments[i]

(***************************************************************************)
(* C7, amended.  A segment with no comma comes out with its newlines       *)
(* turned into spaces and the white space at its two ends removed; it      *)
(* comes out character for character when it has no newline and neither    *)
(* starts nor ends with white space.                                       *)
(***************************************************************************)
C7_TrimmedOnly ==
    pc = "parsed" =>
        \A i \in DOMAIN RawSegments :
            ~HasComma(RawSegments[i]) =>
                /\ authors[i] = Trim(Segments[i])
                /\ (/\ RawSegments[i] # <<>>
                    /\ ~IsWhitespace(RawSegments[i][1])
                    /\ ~IsWhitespace(RawSegments[i][Len(RawSegments[i])])
                    /\ \A k \in DOMAIN RawSegments[i] : RawSegments[i][k] # "\n")
                   => authors[i] = RawSegments[i]

\* a segment with no comma that loses its leading blank
C7_Witness ==
    /\ pc = "parsed"
    /\ s = <<" ", "D", " ", "J">>
    /\ authors = << <<"D", " ", "J">> >>

(***************************************************************************)
(* What the properties of a record are stated with, read off the tags.     *)
(***************************************************************************)
Has(t, k) == t[k] # None

NoVenueTag(t) == ~Has(t, "journal") /\ ~Has(t, "journaltitle") /\ ~Has(t, "booktitle")

MissingMandatory(t) ==
    ~Has(t, "author") \/ ~Has(t, "title") \/ ~Has(t, "url") \/ NoVenueTag(t)

\* the part of str before its first "-", all of it when it has none
BeforeDash(str) ==
    LET dashes == {i \in DOMAIN str : str[i] = "-"}
    IN  IF dashes = {} THEN str ELSE SubSeq(str, 1, Min(dashes) - 1)

\* the year is there and is an integer: that of `date` when `date` is there
YearParsable(t) ==
    IF Has(t, "date") THEN IsInteger(BeforeDash(t.date[1]))
    ELSE Has(t, "year") /\ IsInteger(t.year[1])

YearOf(t) ==
    IF Has(t, "date") THEN IntegerOf(BeforeDash(t.date[1])) ELSE IntegerOf(t.year[1])

Converts(t) == ~MissingMandatory(t) /\ YearParsable(t)

Unparsable(o) == o = None \/ ~IsInteger(o[1])

(***************************************************************************)
(* C1.  Once Paper::from has run on tags that lack `author`, `title`,      *)
(* `url` or every venue tag, it has panicked: there is no record and       *)
(* nothing is rendered, whatever the other tags hold.                      *)
(***************************************************************************)
C1_MissingMandatoryFails ==
    (pc # "tags" /\ MissingMandatory(tags)) =>
        (pc = "panicked" /\ ~paper.ok /\ block = <<>>)

\* everything there but the url
C1_Witness ==
    /\ pc = "panicked"
    /\ ~Has(tags, "url")
    /\ Has(tags, "author") /\ Has(tags, "title") /\ Has(tags, "journal")
    /\ YearParsable(tags)

(***************************************************************************)
(* C2.  With `author`, `title`, `url`, a venue tag and a parsable year,    *)
(* Paper::from gives a record whatever the optional tags hold; a volume    *)
(* or series that is absent or no integer is absent in the record (the     *)
(* series being read from `series`, else from `number`), and absent pages  *)
(* give no `from` and no `to`.                                             *)
(***************************************************************************)
C2_LenientAbsence ==
    (pc # "tags" /\ Converts(tags)) =>
        /\ paper.ok
        /\ Unparsable(tags.volume) => paper.vol = None
        /\ Unparsable(IF Has(tags, "series") THEN tags.series ELSE tags.number)
               => paper.series = None
        /\ ~Has(tags, "pages") => paper.pages = [from |-> None, to |-> None]

\* text for the volume and the series, no pages: a record all the same
C2_Witness ==
    /\ pc = "rendered"
    /\ tags.volume = Some(<<"v">>) /\ tags.series = Some(<<"s">>)
    /\ Has(tags, "number") /\ ~Has(tags, "pages")
    /\ paper.vol = None /\ paper.series = None

(***************************************************************************)
(* C3.  The venue of a record is Journal(journal) when `journal` is there, *)
(* else Journal(journaltitle) when `journaltitle` is there, else           *)
(* Conference(booktitle); with none of the three there is no record.       *)
(***************************************************************************)
C3_VenuePrecedence ==
    pc # "tags" =>
        /\ NoVenueTag(tags) => ~paper.ok
        /\ paper.ok =>
               paper.place =
                   IF Has(tags, "journal")
                   THEN [kind |-> "Journal", name |-> tags.journal[1]]
                   ELSE IF Has(tags, "journaltitle")
                   THEN [kind |-> "Journal", name |-> tags.journaltitle[1]]
                   ELSE [kind |-> "Conference", name |-> tags.booktitle[1]]

\* journaltitle and booktitle both there, no journal: journaltitle wins
C3_Witness ==
    /\ pc = "built"
    /\ ~Has(tags, "journal") /\ Has(tags, "journaltitle") /\ Has(tags, "booktitle")
    /\ paper.place = [kind |-> "Journal", name |-> <<"k">>]

(***************************************************************************)
(* C4.  The year of a record is the integer before the first "-" of `date` *)
(* when `date` is there, `year` being ignored, and the integer of `year`   *)
(* otherwise; with the other mandatory tags there, Paper::from fails       *)
(* exactly when neither tag is there or the chosen text is no integer.     *)
(***************************************************************************)
C4_YearResolution ==
    pc # "tags" =>
        /\ paper.ok => (YearParsable(tags) /\ paper.year = YearOf(tags))
        /\ ~MissingMandatory(tags) => (paper.ok <=> YearParsable(tags))

\* date and year both there: the date's year
C4_Witness ==
    /\ pc = "built"
    /\ tags.date = Some(<<"2", "1", "-", "0", "5">>)
    /\ tags.year = Some(<<"1", "9">>)
    /\ paper.year = 21

\* date wins also when it is no integer: the record fails though `year` parses
C4_WitnessDateWins ==
    /\ pc = "panicked"
    /\ ~MissingMandatory(tags)
    /\ tags.date = Some(<<"x", "-", "1">>)
    /\ tags.year = Some(<<"1", "9">>)

(***************************************************************************)
(* The lines of a text, and the lines of a block that start with one of    *)
(* the keys of the layout.                                                 *)
(***************************************************************************)
\* the lines a text that ends with a newline is made of
LinesOf(text) ==
    LET parts == SplitChar(text, "\n") IN SubSeq(parts, 1, Len(parts) - 1)

LayoutKeys ==
    {"---", "authors:", "  - \"", "page:", "  from: ", "  to: ", "volume: ",
     "series: ", "journal:", "conference:", "  name: \"", "  shortname: \"\"",
     "title: \"", "publisher: ", "year: ", "doi: \"", "www: \""}

IsKeyLine(line) == line # <<>> /\ line[1] \in LayoutKeys

KeyLines(text) == SelectSeq(LinesOf(text), IsKeyLine)

KeysOf(lines) == [i \in DOMAIN lines |-> lines[i][1]]

\* the keys of the block of a record with n authors
Skeleton(n, venue) ==
    <<"---", "authors:">> \o [i \in 1..n |-> "  - \""]
        \o <<"page:", "  from: ", "  to: ", "volume: ", "series: ", venue,
             "  name: \"", "  shortname: \"\"", "title: \"", "publisher: ",
             "year: ", "doi: \"", "www: \"", "---">>

\* the text after the closing "---" line of a block
AfterFrontMatter(text) ==
    LET marks == {i \in DOMAIN text : text[i] = "---"}
        close == CHOOSE i \in marks : \A j \in marks : j <= i
    IN  SubSeq(text, close + 2, Len(text))

(***************************************************************************)
(* C8.  The key lines of every rendered block are, in this order, `---`,   *)
(* `authors:`, one list item per author, `page:`, `from:`, `to:`,          *)
(* `volume:`, `series:`, `journal:` or `conference:`, `name:`,             *)
(* `shortname: ""`, `title:`, `publisher:`, `year:`, `doi:`, `www:`,       *)
(* `---`, and the abstract follows; an absent page, volume, series, doi or *)
(* publisher leaves its line in place with nothing after the key.          *)
(***************************************************************************)
C8_FixedSkeleton ==
    pc = "rendered" =>
        LET kl == KeyLines(block)
            n  == Len(paper.auth)
        IN  /\ KeysOf(kl) = Skeleton(n, IF paper.place.kind = "Journal"
                                        THEN "journal:" ELSE "conference:")
            /\ \A i \in 1..n : kl[2 + i] = <<"  - \"">> \o paper.auth[i] \o <<"\"">>
            /\ paper.pages.from = None => kl[n + 4] = <<"  from: ">>
            /\ paper.pages.to = None => kl[n + 5] = <<"  to: ">>
            /\ paper.vol = None => kl[n + 6] = <<"volume: ">>
            /\ paper.series = None => kl[n + 7] = <<"series: ">>
            /\ kl[n + 10] = <<"  shortname: \"\"">>
            /\ paper.publi = None => kl[n + 12] = <<"publisher: ">>
            /\ paper.doi = <<>> => kl[n + 14] = <<"doi: \"", "\"">>
            /\ SubSeq(AfterFrontMatter(block), 1, Len(paper.abs)) = paper.abs

\* a record with no pages, volume, series, doi nor publisher
C8_Witness ==
    /\ pc = "rendered"
    /\ paper.pages = [from |-> None, to |-> None]
    /\ paper.vol = None /\ paper.series = None
    /\ paper.doi = <<>> /\ paper.publi = None

(***************************************************************************)
(* What the properties of the output stream are stated with.               *)
(***************************************************************************)
\* the titles of the blocks of a text, in order
TitlesOf(text) ==
    LET tl == SelectSeq(LinesOf(text), LAMBDA l : l # <<>> /\ l[1] = "title: \"")
    IN  [i \in DOMAIN tl |-> SubSeq(tl[i], 2, Len(tl[i]) - 1)]

\* the number of blocks of a text
BlocksOf(text) == Cardinality({i \in DOMAIN text : text[i] = "authors:"})

RECURSIVE Stream(_, _)
\* the rendered blocks of the first n entries, each followed by sep
Stream(n, sep) ==
    IF n = 0 THEN <<>>
    ELSE Stream(n - 1, sep) \o Paper_fmt(Paper_from(entries[n])) \o sep

\* the abstract of entry n in its record
AbstractOf(n) == IF Has(entries[n], "abstract") THEN entries[n].abstract[1] ELSE <<>>

\* text ends with tail
EndsWith(text, tail) ==
    /\ Len(tail) <= Len(text)
    /\ SubSeq(text, Len(text) - Len(tail) + 1, Len(text)) = tail

(***************************************************************************)
(* C9.  At every point of a run the output holds one block for each of the *)
(* idx entries handled so far, in input order, and each of those entries   *)
(* converts; a run ends normally only with every entry handled; a run that *)
(* has panicked stands at the first entry that does not convert, with the  *)
(* blocks of exactly the entries before it written.                        *)
(***************************************************************************)
C9_BlocksInOrderUntilFailure ==
    /\ idx <= Len(entries)
    /\ BlocksOf(out) = idx
    /\ TitlesOf(out) = [i \in 1..idx |-> entries[i].title[1]]
    /\ \A i \in 1..idx : Converts(entries[i])
    /\ pc = "done" => idx = Len(entries)
    /\ pc = "panicked" => (idx < Len(entries) /\ ~Converts(entries[idx + 1]))

\* two blocks written, then an entry that does not convert, and one after it
C9_Witness ==
    /\ pc = "panicked"
    /\ idx = 2
    /\ Len(entries) > idx + 1
    /\ Converts(entries[idx + 2])
    /\ TitlesOf(out) = <<entries[1].title[1], entries[2].title[1]>>
    /\ entries[1] # entries[2]

(***************************************************************************)
(* C10, as stated.  The output is the rendered blocks of the entries       *)
(* handled so far one after the other, with nothing between or after them, *)
(* and ends with the abstract of the last one and one blank line.          *)
(***************************************************************************)
C10_NoSeparator ==
    /\ out = Stream(idx, <<>>)
    /\ idx > 0 =>
           /\ EndsWith(out, <<"---", "\n">> \o AbstractOf(idx) \o <<"\n", "\n">>)
           /\ ~EndsWith(out, <<"\n", "\n", "\n">>)

(***************************************************************************)
(* C10, amended.  The output is the rendered blocks of the entries handled *)
(* so far, each followed by the one newline the writer adds; a rendered    *)
(* block ends with the abstract and one blank line, so in the output every *)
(* block ends with the abstract and two blank lines, also when the         *)
(* abstract is empty.                                                      *)
(***************************************************************************)
C10_NewlineAfterEachBlock ==
    /\ out = Stream(idx, <<"\n">>)
    /\ \A i \in 1..idx :
           EndsWith(Paper_fmt(Paper_from(entries[i])),
                    <<"---", "\n">> \o AbstractOf(i) \o <<"\n", "\n">>)
    /\ idx > 0 =>
           EndsWith(out, <<"---", "\n">> \o AbstractOf(idx) \o <<"\n", "\n", "\n">>)

\* two blocks written, the last one with an empty abstract
C10_Witness ==
    /\ pc = "done"
    /\ idx = 2
    /\ ~Has(entries[2], "abstract")
    /\ Has(entries[1], "abstract")

====
